---- MODULE Spec2Model ----
(***************************************************************************)
(* Code-hosting reconnaissance and secret-scanning engine of MJSrecon.     *)
(*                                                                         *)
(*   SpecApi : the GitHub API client and its response cache                *)
(*             (src/src/scanners/github/github.py, GitHubRecon,            *)
(*              _get_cached_response / _cache_response /                   *)
(*              _make_github_request).                                     *)
(*   Spec    : one run of GitHubRecon.run_recon of the same file:          *)
(*             discovery, selection, the clone/scan units on the worker    *)
(*             pool, the merge of their results, save and return.          *)
(*   SpecUnit: one clone_and_analyze_repo of the same file, task by task:  *)
(*             the clone, the six futures of the inner executor, their     *)
(*             collection, the executor's exit and the clean-up.           *)
(*   SpecLegacy: one run of the earlier GitHubRecon.run_recon              *)
(*             (src/reconnaissance/github_scanner.py): search, the         *)
(*             sequential clone_and_scan_repo loop, save and return.       *)
(*   SpecGitlab: one run of GitLabRecon.run (src/gitlab/gitlab_scanner.py):*)
(*             search, selection, the sequential clone/scan loop, save     *)
(*             and return.                                                 *)
(*   SpecCache: two threads calling _cache_response and                    *)
(*             _get_cached_response of github.py for one URL, write by     *)
(*             write.                                                      *)
(*   SpecPaging: the search loop of GitLabRecon.run, request by request:   *)
(*             the queries, their pages, the token.                        *)
(*   SpecParse: the parsing of a detector's output by                      *)
(*             scan_with_trufflehog and scan_with_gitleaks of github.py    *)
(*             and by the earlier scanner, record by record.               *)
(*                                                                         *)
(* Python values: None is the record None; a JSON body is Json(items),     *)
(* Json(<<>>) standing for an empty JSON document ({} or []), which        *)
(* Python treats as false.                                                 *)
(***************************************************************************)
EXTENDS Integers, Sequences, FiniteSets, TLC

VARIABLES
    now,         \* time.time() / datetime.now(), in seconds
    ticks,       \* how often the clock was advanced (bounds the run)
    cache_ttl,   \* self.cache_ttl, read from the configuration
    cache,       \* the cache directory: url -> None | the pickled record
    api,         \* the _make_github_request call in progress
    lastOk       \* url -> None | the last 2xx response received for it

VARIABLES
    rc,                 \* where run_recon's main thread is
    found,              \* search_repositories at its return: its locals, else None
    repositories,       \* self.repositories
    max_repos_to_scan,  \* self.max_repos_to_scan, read from the configuration
    max_concurrent_repos, \* self.max_concurrent_repos, read from the configuration
    top_repos,          \* run_recon's top_repos
    unit,               \* the futures of clone_and_analyze_repo, by position in top_repos
    merged,             \* the futures the main thread has taken from as_completed
    disk,               \* output_dir/cloned_repos: directory name -> content
    secrets_found,      \* self.secrets_found
    useful_data,        \* self.useful_data (the repository of each entry)
    artifacts,          \* the files save_results wrote
    summary             \* what run_recon returned, None before

VARIABLES
    tools,       \* self.tools, built from the enabled_tools configuration
    up,          \* where clone_and_analyze_repo is
    udir,        \* the content of the unit's clone directory
    task,        \* the futures of the inner executor: task -> [st, value]
    pos,         \* the future the collecting thread waits for (index in TaskOrder)
    got,         \* how each wait ended: task -> "value" | "exception" | "timeout"
    results      \* results['secrets']

VARIABLES
    lrc,            \* where the earlier run_recon is
    lrepositories,  \* its local repositories
    ltop_repos,     \* its local top_repos
    lpos,           \* the position of the for loop in top_repos
    all_secrets,    \* its local all_secrets
    temp_clones,    \* output_dir/github/temp_clones: directory name -> content
    lsummary        \* what it returned, None before

VARIABLES
    grc,                \* where GitLabRecon.run is
    gl_max_repos,       \* self.max_repos_to_scan of GitLabRecon
    all_projects,       \* run's local all_projects
    unique_projects,    \* run's local unique_projects
    projects_to_scan,   \* run's local projects_to_scan
    gpos,               \* the position of the scan loop in projects_to_scan
    gl_secrets_found,   \* self.secrets_found of GitLabRecon
    cache_dir,          \* output_dir/gitlab/cache: directory name -> content
    cloned,             \* the clones made so far: project id and directory
    gfiles,             \* the files save_results wrote, None where none
    gresult,            \* what run returned, None before
    removed             \* the directories shutil.rmtree was called on, by name

VARIABLES
    cache_file,   \* the URL's .pkl file: whether it exists, and its chunks
    io,           \* thread -> what it is doing with the file
    entry,        \* the last complete record the file held, None before
    observed      \* the last _get_cached_response: what it returned and when

VARIABLES
    ppc,                 \* where the search loop of GitLabRecon.run is
    gitlab_token,        \* whether self.gitlab_token is set
    search_per_page,     \* self.search_per_page
    max_search_results,  \* self.max_search_results
    index,               \* the provider: query -> number of matching projects
    qidx,                \* the position of the for loop in search_queries
    page,                \* run's local page
    paged,               \* run's local all_projects, as this loop fills it
    requests             \* the search requests sent so far

VARIABLES
    dpc,      \* where the parsing of the detector's output is
    parser,   \* which function parses: trufflehog, gitleaks or the earlier scanner's
    stdout,   \* result.stdout: the kind of each record
    lineno,   \* the position of the loop in the records
    parsed    \* the function's local secrets

apiVars == <<now, ticks, cache_ttl, cache, api, lastOk>>

reconVars == <<rc, found, repositories, max_repos_to_scan,
               max_concurrent_repos, top_repos, unit,
               merged, disk, secrets_found, useful_data, artifacts, summary>>

unitVars == <<tools, up, udir, task, pos, got, results>>

legacyVars == <<lrc, lrepositories, ltop_repos, lpos, all_secrets,
                temp_clones, lsummary>>

gitlabVars == <<grc, gl_max_repos, all_projects, unique_projects,
                projects_to_scan, gpos, gl_secrets_found, cache_dir, cloned,
                gfiles, gresult, removed>>

cacheVars == <<cache_file, io, entry, observed>>

parseVars == <<dpc, parser, stdout, lineno, parsed>>

pagingVars == <<ppc, gitlab_token, search_per_page, max_search_results,
                index, qidx, page, paged, requests>>

vars == <<apiVars, reconVars, unitVars, legacyVars, gitlabVars, cacheVars, pagingVars, parseVars>>

\* Python's None.
None == [none |-> TRUE]

\* A decoded JSON body holding the given items.
Json(items) == [items |-> items]

\* ------------------------------------------------------------- bounds
MaxTicks == 3
MaxAttempts == 3

\* ---------------------------------------------------- program constants
CacheMaxAge == 3600
RateLimitWait == 60
DefaultCacheTtl == 3600

\* ------------------------------------------------------------- inputs
Urls == {"u1", "u2"}
Payloads == {Json(<<>>), Json(<<"r1">>), Json(<<"r2">>)}
CacheTtlChoices == {1800, DefaultCacheTtl, 7200}
TickSteps == {1800}

\* Python truthiness of an Optional[Dict]: None and empty containers are false.
Truthy(x) == x # None /\ x # Json(<<>>)

\* --------------------------------------------------------------- cache
\* _get_cached_response: the entry's data when the file exists and is
\* younger than the hard-coded 3600 seconds, else None.
GetCachedResponse(c, url, t) ==
    IF c[url] # None /\ t - c[url].timestamp < CacheMaxAge
    THEN c[url].data
    ELSE None

\* _cache_response: overwrite the url's file with data and the current time.
CacheResponse(c, url, data, t) ==
    [c EXCEPT ![url] = [data |-> data, timestamp |-> t]]

\* ------------------------------------------------------------ responses
\* What requests.get can produce at time t: a raised RequestException
\* (NetErr) or a response with a status code, the headers present and a
\* JSON body.  The endpoints the client asks answer 200 when they succeed.
NetErr == [neterr |-> TRUE]

Resp(status, headers, body) ==
    [status |-> status, headers |-> headers, body |-> body]

NoHeaders == [h \in {} |-> 0]

RateLimitHeaders(remaining, reset) ==
    [h \in {"X-RateLimit-Remaining", "X-RateLimit-Reset"} |->
        IF h = "X-RateLimit-Remaining" THEN remaining ELSE reset]

Responses(t) ==
    {Resp(200, NoHeaders, p) : p \in Payloads}
    \cup {Resp(403, RateLimitHeaders(0, r), Json(<<>>)) : r \in {t, t + 1800}}
    \cup {Resp(403, [h \in {"X-RateLimit-Remaining"} |-> 0], Json(<<>>))}
    \cup {Resp(403, RateLimitHeaders(1, t + 1800), Json(<<>>))}
    \cup {Resp(403, NoHeaders, Json(<<>>))}
    \cup {Resp(429, NoHeaders, Json(<<>>))}
    \cup {Resp(429, [h \in {"Retry-After"} |-> 1800], Json(<<>>))}
    \cup {Resp(404, NoHeaders, Json(<<>>))}
    \cup {NetErr}

Has(r, h) == h \in DOMAIN r.headers

Is2xx(r) == r # NetErr /\ r.status >= 200 /\ r.status < 300

\* A rate-limit signal as the specification understands it: HTTP 429 or a
\* remaining quota of 0.
IsRateLimitSignal(r) ==
    /\ r # NetErr
    /\ \/ r.status = 429
       \/ Has(r, "X-RateLimit-Remaining") /\ r.headers["X-RateLimit-Remaining"] = 0

Idle == [pc |-> "idle", url |-> "", attempts |-> 0, slept |-> <<>>,
         log |-> <<>>, result |-> None, prior |-> None, startedAt |-> 0]

\* Entry of _make_github_request (also of its recursive call): check the
\* cache, return a truthy hit, else issue the GET.
EnterRequest(a, c, t) ==
    LET cached == GetCachedResponse(c, a.url, t) IN
    IF Truthy(cached)
    THEN [a EXCEPT !.pc = "done", !.result = cached]
    ELSE [a EXCEPT !.pc = "wait_http", !.attempts = @ + 1]

\* A caller invokes _make_github_request(url).
MakeGithubRequest(u) ==
    /\ api.pc = "idle"
    /\ api' = EnterRequest([Idle EXCEPT !.url = u, !.prior = lastOk[u],
                                        !.startedAt = now], cache, now)
    /\ UNCHANGED <<now, ticks, cache_ttl, cache, lastOk>>

\* requests.get returned (or raised): lines 156-182.
HttpResponse(r) ==
    /\ api.pc = "wait_http"
    /\ LET a == [api EXCEPT !.log = Append(@, [resp |-> r, at |-> now])] IN
       IF r = NetErr
       THEN \* RequestException: logged, {}
            /\ api' = [a EXCEPT !.pc = "done", !.result = Json(<<>>)]
            /\ UNCHANGED <<cache, lastOk>>
       ELSE IF r.status = 403 /\ Has(r, "X-RateLimit-Remaining")
                 /\ ~Has(r, "X-RateLimit-Reset")
       THEN \* response.headers['X-RateLimit-Reset'] raises KeyError
            /\ api' = [a EXCEPT !.pc = "raised", !.result = [raised |-> "KeyError"]]
            /\ UNCHANGED <<cache, lastOk>>
       ELSE IF /\ r.status = 403 /\ Has(r, "X-RateLimit-Remaining")
               /\ r.headers["X-RateLimit-Remaining"] = 0
               /\ r.headers["X-RateLimit-Reset"] - now > 0
       THEN \* sleep until the reset time, then call itself again
            /\ api.attempts < MaxAttempts /\ ticks < MaxTicks
            /\ api' = [a EXCEPT !.pc = "sleeping",
                                !.slept = Append(@, r.headers["X-RateLimit-Reset"] - now)]
            /\ UNCHANGED <<cache, lastOk>>
       ELSE IF ~Is2xx(r)
       THEN \* raise_for_status -> HTTPError -> logged, {}
            /\ api' = [a EXCEPT !.pc = "done", !.result = Json(<<>>)]
            /\ UNCHANGED <<cache, lastOk>>
       ELSE /\ api' = [a EXCEPT !.pc = "done", !.result = r.body]
            /\ cache' = IF r.status = 200
                        THEN CacheResponse(cache, api.url, r.body, now)
                        ELSE cache
            /\ lastOk' = [lastOk EXCEPT ![api.url] = [data |-> r.body, at |-> now]]
    /\ UNCHANGED <<now, ticks, cache_ttl>>

\* time.sleep(wait_time) is over: the recursive call of line 169.
SleepDone ==
    /\ api.pc = "sleeping"
    /\ now' = now + api.slept[Len(api.slept)]
    /\ ticks' = ticks + 1
    /\ api' = EnterRequest(api, cache, now')
    /\ UNCHANGED <<cache_ttl, cache, lastOk>>

\* The call has returned (or raised) to its caller.
ReturnToCaller ==
    /\ api.pc \in {"done", "raised"}
    /\ api' = Idle
    /\ UNCHANGED <<now, ticks, cache_ttl, cache, lastOk>>

\* Time passes between two calls.
Tick ==
    /\ api.pc = "idle"
    /\ ticks < MaxTicks
    /\ \E d \in TickSteps : now' = now + d
    /\ ticks' = ticks + 1
    /\ UNCHANGED <<cache_ttl, cache, api, lastOk>>

ApiInit ==
    /\ now = 0
    /\ ticks = 0
    /\ cache_ttl \in CacheTtlChoices
    /\ cache = [u \in Urls |-> None]
    /\ api = Idle
    /\ lastOk = [u \in Urls |-> None]

(***************************************************************************)
(* GitHubRecon.run_recon                                                   *)
(***************************************************************************)
\* ------------------------------------------------------------- bounds
MaxQueries == 2
MaxItems == 2
MaxBudget == 2

\* ---------------------------------------------------- program constants
MaxPoolWorkers == 3
DefaultMaxSearchResults == 1000
DefaultMaxConcurrentRepos == 3

\* ------------------------------------------------------------- inputs
\* Repository full names (owner/name) and their stargazers_count.
Names == {"o/a", "o/b", "p/c"}

StarsOf(n) == IF n = "o/a" THEN 1 ELSE 5

\* repo_name.replace('/', '_')
DirName(n) == CASE n = "o/a" -> "o_a" [] n = "o/b" -> "o_b" [] n = "p/c" -> "p_c"

Dirs == {DirName(n) : n \in Names}

SearchLimits == {3, DefaultMaxSearchResults}

\* The values the configuration gives max_concurrent_repos.
ConcurrencyChoices == {1, DefaultMaxConcurrentRepos}

\* One search response: ok is whether the answer holds 'items' (a failed
\* request answers {}), items are the full names it lists.
ItemLists ==
    {xs \in UNION {[1..k -> Names] : k \in 0..MaxItems} :
        \A i, j \in DOMAIN xs : i # j => xs[i] # xs[j]}

QueryOutcomes ==
    {[ok |-> TRUE, items |-> xs] : xs \in ItemLists}
    \cup {[ok |-> FALSE, items |-> <<>>]}

Detectors == {"trufflehog", "gitleaks", "custom_patterns"}

DetectorOrder == <<"trufflehog", "gitleaks", "custom_patterns">>

\* What the wait for one detector's future ends with.
Outcomes == {"ok", "raise", "timeout"}

\* The detector outcomes the units of a run are given.
UnitOutcomes ==
    {[d \in Detectors |-> "ok"],
     [d \in Detectors |-> IF d = "gitleaks" THEN "timeout" ELSE "ok"]}

\* What trufflehog github --org reports for the target.
OrgScanOutcomes ==
    {<<>>, <<[tool |-> "trufflehog_github_org", repo |-> "org", src |-> "org"]>>}

\* ----------------------------------------------------------- discovery
\* The repo_info dict of lines 223-238.
RepoInfo(n, q) == [name |-> n, stars |-> StarsOf(n), search_query |-> q]

\* The inner loop of lines 222-244: append the items of query q, stopping
\* once the limit is reached.
RECURSIVE AppendItems(_, _, _, _)
AppendItems(acc, items, q, limit) ==
    IF items = <<>> THEN acc
    ELSE LET acc2 == Append(acc, RepoInfo(Head(items), q)) IN
         IF Len(acc2) >= limit THEN acc2
         ELSE AppendItems(acc2, Tail(items), q, limit)

\* Lines 191-255 with a break in place of the continue of line 255: the
\* first query without 'items' ends the search.
RECURSIVE SearchLoopStopsAtFailure(_, _, _, _)
SearchLoopStopsAtFailure(acc, q, answers, limit) ==
    IF q > Len(answers) THEN acc
    ELSE IF ~answers[q].ok THEN acc
    ELSE LET acc2 == AppendItems(acc, answers[q].items, q, limit) IN
         IF Len(acc2) >= limit THEN acc2
         ELSE SearchLoopStopsAtFailure(acc2, q + 1, answers, limit)

\* The loop over the query templates, lines 191-255.
RECURSIVE SearchLoop(_, _, _, _)
SearchLoop(acc, q, answers, limit) ==
    IF q > Len(answers) THEN acc
    ELSE LET acc2 == IF answers[q].ok
                     THEN AppendItems(acc, answers[q].items, q, limit)
                     ELSE acc
         IN  IF Len(acc2) >= limit THEN acc2
             ELSE SearchLoop(acc2, q + 1, answers, limit)

\* Lines 257-263 with the whole record as the key instead of its name.
RECURSIVE RemoveDuplicatesByRecord(_, _, _)
RemoveDuplicatesByRecord(repos, seen, acc) ==
    IF repos = <<>> THEN acc
    ELSE IF Head(repos) \notin seen
         THEN RemoveDuplicatesByRecord(Tail(repos), seen \cup {Head(repos)},
                                       Append(acc, Head(repos)))
         ELSE RemoveDuplicatesByRecord(Tail(repos), seen, acc)

\* "Remove duplicates", lines 257-263: keep a record when its name was not
\* seen before.
RECURSIVE RemoveDuplicates(_, _, _)
RemoveDuplicates(repos, seen, acc) ==
    IF repos = <<>> THEN acc
    ELSE IF Head(repos).name \notin seen
         THEN RemoveDuplicates(Tail(repos), seen \cup {Head(repos).name},
                               Append(acc, Head(repos)))
         ELSE RemoveDuplicates(Tail(repos), seen, acc)

\* sorted(repositories, key=stars, reverse=True): stable, descending.
RECURSIVE InsertByStars(_, _)
InsertByStars(sorted, r) ==
    IF sorted = <<>> THEN <<r>>
    ELSE IF Head(sorted).stars >= r.stars
         THEN <<Head(sorted)>> \o InsertByStars(Tail(sorted), r)
         ELSE <<r>> \o sorted

RECURSIVE SortedByStars(_, _)
SortedByStars(repos, acc) ==
    IF repos = <<>> THEN acc
    ELSE SortedByStars(Tail(repos), InsertByStars(acc, Head(repos)))

\* The slice xs[:n] for n >= 0.
Take(xs, n) == SubSeq(xs, 1, IF n < Len(xs) THEN n ELSE Len(xs))

\* Line 889 without the [:max_repos_to_scan] slice.
TopReposUnsliced(repos, budget) == SortedByStars(repos, <<>>)

\* Line 889.
TopRepos(repos, budget) == Take(SortedByStars(repos, <<>>), budget)

\* ------------------------------------------------------------ pipeline
\* The content of a clone directory an earlier run left behind: the
\* repository as it was then.
Earlier(n) == CASE n = "o/a" -> "o/a@earlier" [] n = "o/b" -> "o/b@earlier"
                [] n = "p/c" -> "p/c@earlier"

Clones == Names \cup {Earlier(n) : n \in Names}

\* What detector d reports on a clone directory with the given content:
\* one finding when a clone is there, nothing otherwise.
Findings(d, dir, content) ==
    IF content \in Clones
    THEN <<[tool |-> d, repo |-> dir, src |-> content]>>
    ELSE <<>>

\* Lines 811-831: results['secrets'], each future collected in its own
\* try/except.
RECURSIVE CollectSecrets(_, _, _, _)
CollectSecrets(order, o, dir, content) ==
    IF order = <<>> THEN <<>>
    ELSE (IF o[Head(order)] = "ok" THEN Findings(Head(order), dir, content) ELSE <<>>)
         \o CollectSecrets(Tail(order), o, dir, content)

\* ------------------------------------------------------------- actions
Units == DOMAIN unit

InFlight == {i \in Units : unit[i].st \in {"cloned", "scanned"}}

Finished(i) == unit[i].st \in {"completed", "clone_failed", "raised"}

\* search_repositories, lines 184-266.
SearchRepositories ==
    /\ rc = "start"
    /\ \E answers \in [1..MaxQueries -> QueryOutcomes], limit \in SearchLimits :
         LET raw == SearchLoop(<<>>, 1, answers, limit) IN
         found' = [answers |-> answers, limit |-> limit, raw |-> raw,
                   unique |-> RemoveDuplicates(raw, {}, <<>>)]
    /\ rc' = "searched"
    /\ UNCHANGED <<repositories, max_repos_to_scan, max_concurrent_repos,
                   top_repos, unit, merged,
                   disk, secrets_found, useful_data, artifacts, summary>>

\* run_recon, lines 861-901: keep the repositories, run the organisation
\* scan, pick top_repos and submit one clone_and_analyze_repo per entry.
SelectAndSubmit ==
    /\ rc = "searched"
    /\ repositories' = repositories \o found.unique
    /\ \E org \in OrgScanOutcomes : secrets_found' = secrets_found \o org
    /\ top_repos' = TopRepos(found.unique, max_repos_to_scan)
    /\ unit' = [i \in 1..Len(top_repos') |-> [st |-> "queued", secrets |-> <<>>]]
    /\ found' = None
    /\ rc' = "units"
    /\ UNCHANGED <<max_repos_to_scan, max_concurrent_repos, merged, disk, useful_data, artifacts, summary>>

\* clone_repository inside a worker, lines 348-376 and 788-790.  A worker
\* takes the next queued future when fewer than min(3, len(top_repos))
\* units are running.
CloneRepository(i) ==
    /\ rc = "units" /\ i \in Units
    /\ unit[i].st = "queued"
    /\ \A j \in Units : j < i => unit[j].st # "queued"
    /\ Cardinality(InFlight) <
           (IF MaxPoolWorkers < Len(top_repos) THEN MaxPoolWorkers ELSE Len(top_repos))
    /\ LET dir == DirName(top_repos[i].name) IN
       IF disk[dir] \notin {"absent", "empty"}
       THEN \* "already cloned, skipping"
            /\ unit' = [unit EXCEPT ![i].st = "cloned"]
            /\ UNCHANGED disk
       ELSE \E git \in {"ok", "failed", "timeout"} :
              /\ disk' = [disk EXCEPT ![dir] =
                            CASE git = "ok" -> top_repos[i].name
                              [] git = "failed" -> "empty"
                              [] git = "timeout" -> "partial"]
              /\ unit' = [unit EXCEPT ![i].st =
                            IF git = "ok" THEN "cloned" ELSE "clone_failed"]
    /\ UNCHANGED <<rc, found, repositories, max_repos_to_scan, max_concurrent_repos,
                   top_repos, merged,
                   secrets_found, useful_data, artifacts, summary>>

\* Lines 801-846: the scans of one clone, collected into results['secrets'].
ScanRepository(i) ==
    /\ rc = "units" /\ i \in Units
    /\ unit[i].st = "cloned"
    /\ LET dir == DirName(top_repos[i].name) IN
       \E o \in UnitOutcomes :
           unit' = [unit EXCEPT ![i] =
               [st |-> "scanned",
                secrets |-> CollectSecrets(DetectorOrder, o, dir, disk[dir])]]
    /\ UNCHANGED <<rc, found, repositories, max_repos_to_scan, max_concurrent_repos,
                   top_repos, merged,
                   disk, secrets_found, useful_data, artifacts, summary>>

\* Lines 802-809: executor.submit raises (no thread can be started); the
\* exception leaves clone_and_analyze_repo before line 848.
ScanAborts(i) ==
    /\ rc = "units" /\ i \in Units
    /\ unit[i].st = "cloned"
    /\ unit' = [unit EXCEPT ![i].st = "raised"]
    /\ UNCHANGED <<rc, found, repositories, max_repos_to_scan, max_concurrent_repos,
                   top_repos, merged,
                   disk, secrets_found, useful_data, artifacts, summary>>

\* Lines 848-854: shutil.rmtree(repo_path), then return results.
ReleaseRepository(i) ==
    /\ rc = "units" /\ i \in Units
    /\ unit[i].st = "scanned"
    /\ disk' = [disk EXCEPT ![DirName(top_repos[i].name)] = "absent"]
    /\ unit' = [unit EXCEPT ![i].st = "completed"]
    /\ UNCHANGED <<rc, found, repositories, max_repos_to_scan, max_concurrent_repos,
                   top_repos, merged,
                   secrets_found, useful_data, artifacts, summary>>

\* Lines 904-925 with an assignment in place of the extend of line 911:
\* the findings of the future taken last replace the list.
MergeResultAssigns(i) ==
    /\ rc = "units" /\ i \in Units \ merged
    /\ Finished(i)
    /\ merged' = merged \cup {i}
    /\ IF unit[i].st = "completed"
       THEN /\ secrets_found' = unit[i].secrets
            /\ useful_data' = Append(useful_data, top_repos[i].name)
       ELSE UNCHANGED <<secrets_found, useful_data>>
    /\ UNCHANGED <<rc, found, repositories, max_repos_to_scan, max_concurrent_repos,
                   top_repos, unit,
                   disk, artifacts, summary>>

\* Lines 904-925: the main thread takes a finished future from
\* as_completed.  A clone_failed result has no 'secrets' key, a raised
\* future re-raises: both end in the except branch.
MergeResult(i) ==
    /\ rc = "units" /\ i \in Units \ merged
    /\ Finished(i)
    /\ merged' = merged \cup {i}
    /\ IF unit[i].st = "completed"
       THEN /\ secrets_found' = secrets_found \o unit[i].secrets
            /\ useful_data' = Append(useful_data, top_repos[i].name)
       ELSE UNCHANGED <<secrets_found, useful_data>>
    /\ UNCHANGED <<rc, found, repositories, max_repos_to_scan, max_concurrent_repos,
                   top_repos, unit,
                   disk, artifacts, summary>>

\* Lines 927-938: save_results and the returned summary.
SaveAndReturn ==
    /\ rc = "units"
    /\ merged = Units
    /\ artifacts' = [repositories |-> repositories, secrets |-> secrets_found]
    /\ summary' = [repos_found |-> Len(repositories),
                   repos_scanned |-> Len(top_repos),
                   secrets_found |-> Len(secrets_found)]
    /\ rc' = "returned"
    /\ UNCHANGED <<found, repositories, max_repos_to_scan, max_concurrent_repos,
                   top_repos, unit, merged,
                   disk, secrets_found, useful_data>>

\* The repository whose clone an earlier run may have left in cloned_repos
\* (clone_repository, lines 354-356, expects such directories).
LeftOver == "o/a"

ReconInit ==
    /\ rc = "start"
    /\ found = None
    /\ repositories = <<>>
    /\ max_repos_to_scan \in 0..MaxBudget
    /\ max_concurrent_repos \in ConcurrencyChoices
    /\ top_repos = <<>>
    /\ unit = <<>>
    /\ merged = {}
    /\ disk \in {[d \in Dirs |-> "absent"],
                 [d \in Dirs |-> IF d = DirName(LeftOver) THEN Earlier(LeftOver)
                                  ELSE "absent"]}
    /\ secrets_found = <<>>
    /\ useful_data = <<>>
    /\ artifacts = None
    /\ summary = None

\* No run: the scanner object as constructed.
ReconQuiet ==
    /\ ReconInit
    /\ max_repos_to_scan = 0
    /\ max_concurrent_repos = DefaultMaxConcurrentRepos
    /\ disk = [d \in Dirs |-> "absent"]

\* No request: the client as constructed.
ApiQuiet ==
    /\ ApiInit
    /\ cache_ttl = DefaultCacheTtl

(***************************************************************************)
(* GitHubRecon.clone_and_analyze_repo, task by task                        *)
(***************************************************************************)
\* ---------------------------------------------------- program constants
InnerPoolWorkers == 4

\* The repository the unit is given.
UnitRepo == "o/a"

\* The futures in the order of their submission and collection.
TaskOrder == <<"trufflehog", "gitleaks", "custom_patterns",
               "content", "commits", "issues">>

Tasks == {TaskOrder[k] : k \in DOMAIN TaskOrder}

\* self.tools after __init__, lines 58-75: a key per entry of
\* enabled_tools, TRUE when the tool is enabled and its binary answers.
ToolConfigs ==
    {[t \in {"trufflehog", "gitleaks"} |-> TRUE],
     [t \in {"trufflehog", "gitleaks"} |-> t = "gitleaks"],
     [t \in {"trufflehog"} |-> TRUE],
     [t \in {} |-> TRUE]}

TaskIndex(d) == CHOOSE k \in DOMAIN TaskOrder : TaskOrder[k] = d

TaskFinished(d) == task[d].st \in {"returned", "raised"}

\* What the function behind future d can return on this clone.
\* scan_with_trufflehog / scan_with_gitleaks (lines 378-455) return [] when
\* the tool is switched off and when the subprocess fails or times out;
\* scan_with_custom_patterns (457-494) returns what it matched; the
\* analysis tasks return their data, which holds no secrets.
TaskReturns(d) ==
    IF d \in {"trufflehog", "gitleaks"}
    THEN IF tools[d] THEN {Findings(d, DirName(UnitRepo), udir), <<>>} ELSE {<<>>}
    ELSE IF d = "custom_patterns"
    THEN {Findings(d, DirName(UnitRepo), udir), <<>>}
    ELSE {<<>>}

\* self.tools['trufflehog'] / self.tools['gitleaks'] (lines 382, 422) raise
\* KeyError when enabled_tools has no such key.
TaskRaises(d) == d \in {"trufflehog", "gitleaks"} /\ d \notin DOMAIN tools

\* Whether the function behind future d calls subprocess.run: trufflehog
\* (line 390) and gitleaks (430) when their tool is on, git log in
\* get_commit_history (543) always; the others never do.
SpawnsSubprocess(d) ==
    \/ d \in {"trufflehog", "gitleaks"} /\ d \in DOMAIN tools /\ tools[d]
    \/ d = "commits"

\* The subprocess.run calls the unit has made: git clone (line 362) and
\* those of the futures that have run.
Subprocesses ==
    (IF up = "start" THEN 0 ELSE 1)
    + Cardinality({d \in Tasks : TaskFinished(d) /\ SpawnsSubprocess(d)})

\* Lines 787-790: the clone.
UnitClone ==
    /\ up = "start"
    /\ \E git \in {"ok", "failed", "timeout"} :
         /\ udir' = CASE git = "ok" -> UnitRepo
                      [] git = "failed" -> "empty"
                      [] git = "timeout" -> "partial"
         /\ up' = IF git = "ok" THEN "cloned" ELSE "clone_failed"
    /\ UNCHANGED <<tools, task, pos, got, results>>

\* Lines 802-809: the six submits.
SubmitTasks ==
    /\ up = "cloned"
    /\ task' = [d \in Tasks |-> [st |-> "queued", value |-> <<>>]]
    /\ pos' = 1
    /\ up' = "collecting"
    /\ UNCHANGED <<tools, udir, got, results>>

\* Lines 802-809: executor.submit raises; the exception leaves the
\* function before the clean-up of line 848.
SubmitRaises ==
    /\ up = "cloned"
    /\ up' = "raised"
    /\ UNCHANGED <<tools, udir, task, pos, got, results>>

\* A worker of ThreadPoolExecutor(max_workers=4) takes the next future.
StartTask(d) ==
    /\ up = "collecting"
    /\ task[d].st = "queued"
    /\ \A e \in Tasks : TaskIndex(e) < TaskIndex(d) => task[e].st # "queued"
    /\ Cardinality({e \in Tasks : task[e].st = "running"}) < InnerPoolWorkers
    /\ task' = [task EXCEPT ![d].st = "running"]
    /\ UNCHANGED <<tools, up, udir, pos, got, results>>

\* The function behind future d returns or raises.
FinishTask(d) ==
    /\ up = "collecting"
    /\ task[d].st = "running"
    /\ IF TaskRaises(d)
       THEN task' = [task EXCEPT ![d].st = "raised"]
       ELSE \E v \in TaskReturns(d) :
              task' = [task EXCEPT ![d] = [st |-> "returned", value |-> v]]
    /\ UNCHANGED <<tools, up, udir, pos, got, results>>

\* Lines 812-846 with one try/except around all the waits: the first
\* exception ends the collection.
CollectResultSharedTry ==
    /\ up = "collecting" /\ pos \in DOMAIN TaskOrder
    /\ LET d == TaskOrder[pos] IN
       /\ TaskFinished(d)
       /\ got' = [got EXCEPT ![d] =
                    IF task[d].st = "returned" THEN "value" ELSE "exception"]
       /\ results' = IF task[d].st = "returned" /\ d \in Detectors
                     THEN results \o task[d].value
                     ELSE results
       /\ pos' = IF task[d].st = "returned" THEN pos + 1 ELSE Len(TaskOrder) + 1
    /\ UNCHANGED <<tools, up, udir, task>>

\* Lines 812-846: future.result(timeout=...) of the future at pos gives
\* the value or re-raises, inside that future's own try/except.
CollectResult ==
    /\ up = "collecting" /\ pos \in DOMAIN TaskOrder
    /\ LET d == TaskOrder[pos] IN
       /\ TaskFinished(d)
       /\ got' = [got EXCEPT ![d] =
                    IF task[d].st = "returned" THEN "value" ELSE "exception"]
       /\ results' = IF task[d].st = "returned" /\ d \in Detectors
                     THEN results \o task[d].value
                     ELSE results
    /\ pos' = pos + 1
    /\ UNCHANGED <<tools, up, udir, task>>

\* Lines 812-846: the wait for the future at pos times out; the
\* TimeoutError is caught and the future keeps running.
WaitTimesOut ==
    /\ up = "collecting" /\ pos \in DOMAIN TaskOrder
    /\ ~TaskFinished(TaskOrder[pos])
    /\ got' = [got EXCEPT ![TaskOrder[pos]] = "timeout"]
    /\ pos' = pos + 1
    /\ UNCHANGED <<tools, up, udir, task, results>>

\* Lines 846-854 with an executor that is shut down without waiting
\* (shutdown(wait=False)): the clean-up follows the last wait at once.
ExitAndReleaseWithoutWaiting ==
    /\ up = "collecting" /\ pos = Len(TaskOrder) + 1
    /\ udir' = "absent"
    /\ up' = "returned"
    /\ UNCHANGED <<tools, task, pos, got, results>>

\* Lines 846-854: the with block ends (shutdown(wait=True) returns once
\* every future has finished), then shutil.rmtree and return results.
ExitAndRelease ==
    /\ up = "collecting" /\ pos = Len(TaskOrder) + 1
    /\ \A d \in Tasks : TaskFinished(d)
    /\ udir' = "absent"
    /\ up' = "returned"
    /\ UNCHANGED <<tools, task, pos, got, results>>

UnitInit ==
    /\ tools \in ToolConfigs
    /\ up = "start"
    /\ udir = "absent"
    /\ task = [d \in Tasks |-> [st |-> "unsubmitted", value |-> <<>>]]
    /\ pos = 0
    /\ got = [d \in Tasks |-> "pending"]
    /\ results = <<>>

\* No unit: GitHubRecon as constructed with the default tools.
UnitQuiet ==
    /\ UnitInit
    /\ tools = [t \in {"trufflehog", "gitleaks"} |-> TRUE]

(***************************************************************************)
(* The earlier scanner: src/reconnaissance/github_scanner.py.              *)
(***************************************************************************)
\* Line 117: the slice [:10].
LegacyBudget == 10

\* An item of the search answer: name is its full_name, stars its
\* stargazers_count; the API gives every item a clone_url.
LegacyItem(n) == [name |-> n, stars |-> StarsOf(n)]

\* The answers of the one search query (lines 60-67): no item twice;
\* a failed request gives the empty list.
LegacyAnswers ==
    {<<>>}
    \cup {<<LegacyItem(a)>> : a \in Names}
    \cup {<<LegacyItem(p[1]), LegacyItem(p[2])>> :
            p \in {q \in Names \X Names : q[1] # q[2]}}
    \cup {<<LegacyItem(p[1]), LegacyItem(p[2]), LegacyItem(p[3])>> :
            p \in {q \in Names \X Names \X Names :
                     q[1] # q[2] /\ q[1] # q[3] /\ q[2] # q[3]}}

\* Lines 113-117: search, sort by stars, keep the first ten.
LegacySearch ==
    /\ lrc = "start"
    /\ \E items \in LegacyAnswers :
         /\ lrepositories' = items
         /\ ltop_repos' = Take(SortedByStars(items, <<>>), LegacyBudget)
    /\ lpos' = 1
    /\ lrc' = "loop"
    /\ UNCHANGED <<all_secrets, temp_clones, lsummary>>

\* Lines 76-84 and 105-109 of clone_and_scan_repo for top_repos[lpos]:
\* git clone ends with the clone on disk, or fails and leaves no
\* directory, or runs into timeout=300: subprocess.run raises
\* TimeoutExpired, the finally block removes what is there, and no except
\* clause in clone_and_scan_repo or in run_recon's loop takes the exception.
LegacyClone ==
    /\ lrc = "loop" /\ lpos \in DOMAIN ltop_repos
    /\ LET dir == DirName(ltop_repos[lpos].name) IN
       \E git \in {"ok", "failed", "timeout"} :
          CASE git = "ok" ->
                 /\ temp_clones' = [temp_clones EXCEPT ![dir] = ltop_repos[lpos].name]
                 /\ lrc' = "cloned"
                 /\ lpos' = lpos
            [] git = "failed" ->
                 /\ temp_clones' = temp_clones
                 /\ lrc' = "loop"
                 /\ lpos' = lpos + 1
            [] git = "timeout" ->
                 /\ temp_clones' = [temp_clones EXCEPT ![dir] = "absent"]
                 /\ lrc' = "raised"
                 /\ lpos' = lpos
    /\ UNCHANGED <<lrepositories, ltop_repos, all_secrets, lsummary>>

\* Lines 85-109 and 120-122: trufflehog on the clone. Its findings are
\* appended to all_secrets; output that is not JSON is logged and gives
\* none; its timeout raises TimeoutExpired as the clone's does. The finally
\* block removes the clone in each case.
LegacyScan ==
    /\ lrc = "cloned"
    /\ LET dir == DirName(ltop_repos[lpos].name) IN
       /\ temp_clones' = [temp_clones EXCEPT ![dir] = "absent"]
       /\ \E th \in {"found", "clean", "garbled", "timeout"} :
            CASE th = "found" ->
                   /\ all_secrets' = all_secrets
                          \o Findings("trufflehog", dir, temp_clones[dir])
                   /\ lrc' = "loop" /\ lpos' = lpos + 1
              [] th \in {"clean", "garbled"} ->
                   /\ all_secrets' = all_secrets
                   /\ lrc' = "loop" /\ lpos' = lpos + 1
              [] th = "timeout" ->
                   /\ all_secrets' = all_secrets
                   /\ lrc' = "raised" /\ lpos' = lpos
    /\ UNCHANGED <<lrepositories, ltop_repos, lsummary>>

\* Lines 124-134: the loop is over; write the file and return the counts.
LegacyReturn ==
    /\ lrc = "loop" /\ lpos = Len(ltop_repos) + 1
    /\ lsummary' = [repos_found   |-> Len(lrepositories),
                    repos_scanned |-> Len(ltop_repos),
                    secrets_found |-> Len(all_secrets)]
    /\ lrc' = "returned"
    /\ UNCHANGED <<lrepositories, ltop_repos, lpos, all_secrets, temp_clones>>

\* Lines 18-34: the object as constructed, run_recon not yet called.
LegacyInit ==
    /\ lrc = "start"
    /\ lrepositories = <<>>
    /\ ltop_repos = <<>>
    /\ lpos = 0
    /\ all_secrets = <<>>
    /\ temp_clones = [d \in Dirs |-> "absent"]
    /\ lsummary = None

\* The earlier scanner is not run.
LegacyQuiet == LegacyInit

(***************************************************************************)
(* GitLabRecon.run: src/gitlab/gitlab_scanner.py.                          *)
(***************************************************************************)
\* The projects a search can list: their id, their name and their
\* path_with_namespace.  Two projects of different groups share a name,
\* and one answer carries an empty name.
ProjectIds == {1, 2, 3, 4}

Project(id) ==
    [id   |-> id,
     name |-> CASE id = 3 -> "lib" [] id = 4 -> "" [] OTHER -> "app",
     path |-> CASE id = 1 -> "g1/app" [] id = 2 -> "g2/app" [] id = 3 -> "g1/lib"
                [] id = 4 -> "g2/"]

\* The star_count of the details GitLab answers for a project (lines
\* 134-141 return the whole document); run never reads it.
StarCount(id) == IF id = 1 THEN 1 ELSE 5

\* clone_dir = self.cache_dir / repo_name, repo_name being the project's
\* name (lines 152 and 353).
CloneDirNames == {Project(id).name : id \in ProjectIds}

\* self.cache_dir / "" is self.cache_dir: under the empty name the clone
\* directory is the cache directory itself.
CacheRoot == ""

\* shutil.rmtree(self.cache_dir / name): the directory goes with all it
\* holds.
Rmtree(dirs, name) ==
    IF name = CacheRoot THEN [d \in DOMAIN dirs |-> "absent"]
    ELSE [dirs EXCEPT ![name] = "absent"]

\* clone_dir.exists() (line 153); the cache directory itself always exists
\* (line 35).
Exists(dirs, name) == name = CacheRoot \/ dirs[name] # "absent"

\* What the pages of one query list; a failed or unauthenticated search
\* lists nothing (lines 85-87, 111-121).
ProjectLists ==
    {xs \in UNION {[1..k -> ProjectIds] : k \in 0..MaxItems} :
        \A i, j \in DOMAIN xs : i # j => xs[i] # xs[j]}

\* Lines 318-336: the details of every listed project, query after query.
RECURSIVE AllProjects(_, _)
AllProjects(answers, q) ==
    IF q > Len(answers) THEN <<>>
    ELSE [k \in DOMAIN answers[q] |-> Project(answers[q][k])]
         \o AllProjects(answers, q + 1)

\* Lines 338-344: keep a project when its id was not seen before.
RECURSIVE UniqueProjects(_, _, _)
UniqueProjects(projects, seen_ids, acc) ==
    IF projects = <<>> THEN acc
    ELSE IF Head(projects).id \notin seen_ids
         THEN UniqueProjects(Tail(projects), seen_ids \cup {Head(projects).id},
                             Append(acc, Head(projects)))
         ELSE UniqueProjects(Tail(projects), seen_ids, acc)

\* Lines 316-349: search, remove duplicates, apply the budget.
GitlabSearch ==
    /\ grc = "start"
    /\ \E answers \in [1..MaxQueries -> ProjectLists] :
         /\ all_projects' = AllProjects(answers, 1)
         /\ unique_projects' = UniqueProjects(all_projects', {}, <<>>)
         /\ projects_to_scan' = Take(unique_projects', gl_max_repos)
    /\ gpos' = 1
    /\ grc' = "loop"
    /\ UNCHANGED <<gl_max_repos, gl_secrets_found, cache_dir, cloned, gfiles,
                   gresult, removed>>

\* Lines 352-364 and clone_repository, lines 149-169: a directory of that
\* name is removed first; git clone leaves the clone, or fails and leaves
\* nothing, or is killed at timeout=300 and leaves what it had written.
\* A failed clone is skipped.
GitlabClone ==
    /\ grc = "loop" /\ gpos \in DOMAIN projects_to_scan
    /\ LET p == projects_to_scan[gpos]
           stale == Exists(cache_dir, p.name)
           cleaned == IF stale THEN Rmtree(cache_dir, p.name) ELSE cache_dir
       IN
       /\ removed' = IF stale THEN removed \cup {p.name} ELSE removed
       /\ \E git \in {"ok", "failed", "timeout"} :
          CASE git = "ok" ->
                 /\ cache_dir' = [cleaned EXCEPT ![p.name] = p.path]
                 /\ cloned' = Append(cloned, [id |-> p.id, dir |-> p.name])
                 /\ grc' = "cloned"
                 /\ gpos' = gpos
            [] git = "failed" ->
                 /\ cache_dir' = cleaned
                 /\ cloned' = cloned
                 /\ grc' = "loop"
                 /\ gpos' = gpos + 1
            [] git = "timeout" ->
                 /\ cache_dir' = [cleaned EXCEPT ![p.name] = "partial"]
                 /\ cloned' = cloned
                 /\ grc' = "loop"
                 /\ gpos' = gpos + 1
    /\ UNCHANGED <<gl_max_repos, all_projects, unique_projects, projects_to_scan,
                   gl_secrets_found, gfiles, gresult>>

\* Lines 366-371: scan_repository (which raises nothing, lines 175-192),
\* the findings appended to self.secrets_found, then shutil.rmtree outside
\* any try: an error in it leaves run.
GitlabScan ==
    /\ grc = "cloned"
    /\ LET p == projects_to_scan[gpos] IN
       /\ \E secrets \in {<<>>, <<[tool |-> "trufflehog", repository |-> p.name,
                                   src |-> cache_dir[p.name]]>>} :
            gl_secrets_found' = gl_secrets_found \o secrets
       /\ \E rm \in {"ok", "error"} :
            IF rm = "ok"
            THEN /\ cache_dir' = Rmtree(cache_dir, p.name)
                 /\ removed' = removed \cup {p.name}
                 /\ grc' = "loop"
                 /\ gpos' = gpos + 1
            ELSE /\ cache_dir' = cache_dir
                 /\ removed' = removed
                 /\ grc' = "raised"
                 /\ gpos' = gpos
    /\ UNCHANGED <<gl_max_repos, all_projects, unique_projects, projects_to_scan,
                   cloned, gfiles, gresult>>

\* Lines 373-382 and save_results, lines 288-309: a file is written only
\* for a list that is not empty, and nothing ever appends to
\* self.repositories or self.useful_data.
GitlabSaveAndReturn ==
    /\ grc = "loop" /\ gpos = Len(projects_to_scan) + 1
    /\ gfiles' = [repositories |-> None,
                  secrets |-> IF gl_secrets_found # <<>>
                              THEN Json(gl_secrets_found) ELSE None]
    /\ gresult' = [repositories |-> <<>>,
                   secrets_found |-> gl_secrets_found,
                   useful_data |-> <<>>]
    /\ grc' = "returned"
    /\ UNCHANGED <<gl_max_repos, all_projects, unique_projects, projects_to_scan,
                   gpos, gl_secrets_found, cache_dir, cloned, removed>>

\* Lines 28-81: the object as constructed.
GitlabInit ==
    /\ grc = "start"
    /\ gl_max_repos \in 0..MaxBudget
    /\ all_projects = <<>>
    /\ unique_projects = <<>>
    /\ projects_to_scan = <<>>
    /\ gpos = 0
    /\ gl_secrets_found = <<>>
    /\ cache_dir = [d \in CloneDirNames |-> "absent"]
    /\ cloned = <<>>
    /\ gfiles = [repositories |-> None, secrets |-> None]
    /\ gresult = None
    /\ removed = {}

\* GitLabRecon is not run.
GitlabQuiet ==
    /\ GitlabInit
    /\ gl_max_repos = 0

(***************************************************************************)
(* The cache file under concurrent callers: github.py, lines 116-138.      *)
(***************************************************************************)
Threads == {"t1", "t2"}

\* The responses the callers cache for the URL.
CachedValues == {"v1", "v2"}

\* pickle.dump(record, f) for a record larger than one pickle frame reaches
\* the file in several writes: the chunks of the record of value v, in
\* file order.
Pickle(v) == <<[of |-> v, part |-> 1], [of |-> v, part |-> 2]>>

\* The file before anybody created it, and a file with the given chunks.
Missing == [exists |-> FALSE, chunks |-> <<>>]

File(chunks) == [exists |-> TRUE, chunks |-> chunks]

\* The bytes a write leaves unwritten before its offset.
Hole == [of |-> "", part |-> 0]

\* write(chunk) by a file object whose position is off chunks into the file.
WriteAt(chunks, off, chunk) ==
    [k \in 1..(IF Len(chunks) > off + 1 THEN Len(chunks) ELSE off + 1) |->
        IF k = off + 1 THEN chunk
        ELSE IF k <= Len(chunks) THEN chunks[k] ELSE Hole]

\* The chunks are those of one record, each in its place.
WellFormed(chunks) ==
    /\ Len(chunks) = Len(Pickle("v1"))
    /\ \A k \in DOMAIN chunks : chunks[k].part = k

\* What pickle.load can give for the file (lines 120-129): the record's
\* data for a complete record; for a file whose chunks come from two
\* records, a record pieced together from both or an exception; for
\* anything shorter an exception.  An exception, like a missing file,
\* ends in return None.
Loads(file) ==
    IF ~file.exists THEN {None}
    ELSE IF \E v \in CachedValues : file.chunks = Pickle(v)
         THEN {[data |-> file.chunks[1].of]}
    ELSE IF WellFormed(file.chunks)
         THEN {None, [torn |-> <<file.chunks[1].of, file.chunks[2].of>>]}
    ELSE {None}

NotWriting == [pc |-> "idle", data |-> "", off |-> 0]

\* _cache_response, line 135: open(cache_file, 'wb') creates or truncates
\* the file.
CacheOpen(t, v) ==
    /\ io[t].pc = "idle"
    /\ io' = [io EXCEPT ![t] = [pc |-> "writing", data |-> v, off |-> 0]]
    /\ cache_file' = File(<<>>)
    /\ UNCHANGED <<entry, observed>>

\* _cache_response, line 136: the next write of pickle.dump, at the
\* position of this thread's file object; the file is closed after the
\* last one.
CacheWrite(t) ==
    /\ io[t].pc = "writing"
    /\ cache_file' = File(WriteAt(cache_file.chunks, io[t].off,
                                  Pickle(io[t].data)[io[t].off + 1]))
    /\ io' = [io EXCEPT ![t] =
                IF io[t].off + 1 = Len(Pickle(io[t].data))
                THEN NotWriting
                ELSE [@ EXCEPT !.off = @ + 1]]
    /\ entry' = IF \E v \in CachedValues : cache_file'.chunks = Pickle(v)
                THEN [data |-> cache_file'.chunks[1].of]
                ELSE entry
    /\ UNCHANGED observed

\* _get_cached_response, lines 116-129, by a thread that is not writing.
CacheRead(t) ==
    /\ io[t].pc = "idle"
    /\ \E r \in Loads(cache_file) :
         observed' = [got |-> r, previous |-> entry,
                  writing |-> {[data |-> io[u].data] :
                                  u \in {w \in Threads : io[w].pc = "writing"}}]
    /\ UNCHANGED <<cache_file, io, entry>>

\* The cache directory is empty and nobody uses it.
CacheInit ==
    /\ cache_file = Missing
    /\ io = [t \in Threads |-> NotWriting]
    /\ entry = None
    /\ observed = [got |-> None, previous |-> None, writing |-> {}]

(***************************************************************************)
(* Discovery of GitLabRecon.run, request by request:                       *)
(* src/gitlab/gitlab_scanner.py, lines 83-121 and 316-336.                 *)
(***************************************************************************)
\* The values the configuration gives search_per_page (line 68) and
\* max_search_results (line 69).
PerPageChoices == 1..MaxItems

MaxResultChoices == 0..(MaxItems + 1)

\* The provider's index: how many projects match each query.
Indexes == [1..MaxQueries -> 0..MaxItems]

\* The project the provider lists at position k of query q.
Listed(q, k) == [query |-> q, k |-> k]

\* The page p of query q, per_page projects a page.
PageOf(n, q, p, per_page) ==
    LET first == (p - 1) * per_page + 1
        last  == IF p * per_page < n THEN p * per_page ELSE n
    IN  [k \in 1..(IF last >= first THEN last - first + 1 ELSE 0)
            |-> Listed(q, first + k - 1)]

\* range(1, max_search_results // search_per_page + 1): the pages the while
\* loop of line 322 lets through.
PageLimit == max_search_results \div search_per_page

\* The elements of xs at the positions of keep, in order.
RECURSIVE KeepAt(_, _, _)
KeepAt(xs, keep, k) ==
    IF k > Len(xs) THEN <<>>
    ELSE (IF k \in keep THEN <<xs[k]>> ELSE <<>>) \o KeepAt(xs, keep, k + 1)

\* Line 318: the for loop takes the next query; line 321.
StartQuery ==
    /\ ppc = "for"
    /\ qidx <= MaxQueries
    /\ page' = 1
    /\ ppc' = "while"
    /\ UNCHANGED <<gitlab_token, search_per_page, max_search_results, index,
                   qidx, paged, requests>>

\* Lines 322-336, one turn of the while loop: search_gitlab (83-121)
\* answers {} without a request when there is no token, and {} when the
\* request fails, is rate limited or is not answered 200; an empty answer
\* breaks.  Otherwise the details of each listed project are fetched (329)
\* and kept when they came (330-331).
SearchPage ==
    /\ ppc = "while"
    /\ page <= PageLimit
    /\ IF ~gitlab_token
       THEN /\ qidx' = qidx + 1
            /\ ppc' = "for"
            /\ UNCHANGED <<page, paged, requests>>
       ELSE /\ requests' = Append(requests, [query |-> qidx, page |-> page,
                                             authorization |-> TRUE])
            /\ \E answered \in BOOLEAN :
                 LET answer == IF answered
                                THEN PageOf(index[qidx], qidx, page, search_per_page)
                                ELSE <<>>
                 IN  IF answer = <<>>
                     THEN /\ qidx' = qidx + 1
                          /\ ppc' = "for"
                          /\ UNCHANGED <<page, paged>>
                     ELSE /\ \E details \in SUBSET DOMAIN answer :
                               paged' = paged \o KeepAt(answer, details, 1)
                          /\ page' = page + 1
                          /\ UNCHANGED <<qidx, ppc>>
    /\ UNCHANGED <<gitlab_token, search_per_page, max_search_results, index>>

\* Line 322: the condition of the while loop fails.
PagesExhausted ==
    /\ ppc = "while"
    /\ page > PageLimit
    /\ qidx' = qidx + 1
    /\ ppc' = "for"
    /\ UNCHANGED <<gitlab_token, search_per_page, max_search_results, index,
                   page, paged, requests>>

\* Line 318: no query is left; run goes on to line 338.
EndSearch ==
    /\ ppc = "for"
    /\ qidx > MaxQueries
    /\ ppc' = "searched"
    /\ UNCHANGED <<gitlab_token, search_per_page, max_search_results, index,
                   qidx, page, paged, requests>>

\* Lines 28-81 and 316.
PagingInit ==
    /\ ppc = "for"
    /\ gitlab_token \in BOOLEAN
    /\ search_per_page \in PerPageChoices
    /\ max_search_results \in MaxResultChoices
    /\ index \in Indexes
    /\ qidx = 1
    /\ page = 1
    /\ paged = <<>>
    /\ requests = <<>>

\* No discovery: the default of an unconfigured scanner.
PagingQuiet ==
    /\ PagingInit
    /\ ~gitlab_token
    /\ search_per_page = 1
    /\ max_search_results = 0
    /\ index = [q \in 1..MaxQueries |-> 0]

NextPaging ==
    \/ StartQuery /\ UNCHANGED <<apiVars, reconVars, unitVars, legacyVars, gitlabVars, cacheVars, parseVars>>
    \/ SearchPage /\ UNCHANGED <<apiVars, reconVars, unitVars, legacyVars, gitlabVars, cacheVars, parseVars>>
    \/ PagesExhausted /\ UNCHANGED <<apiVars, reconVars, unitVars, legacyVars, gitlabVars, cacheVars, parseVars>>
    \/ EndSearch /\ UNCHANGED <<apiVars, reconVars, unitVars, legacyVars, gitlabVars, cacheVars, parseVars>>

(***************************************************************************)
(* The parsing of a detector's output: scan_with_trufflehog and            *)
(* scan_with_gitleaks of github.py (lines 392-414 and 432-453), and        *)
(* clone_and_scan_repo of src/reconnaissance/github_scanner.py (91-103).   *)
(***************************************************************************)
\* The longest output read.
MaxRecords == 3

Parsers == {"trufflehog", "gitleaks", "legacy"}

\* What one record of the output is: a JSON object, text that is not JSON,
\* or JSON that is not an object (a number, a string, a list).
RecordKinds == {"object", "invalid", "scalar"}

\* The output of a detector that exited with 0: its records in order.
Outputs == UNION {[1..n -> RecordKinds] : n \in 0..MaxRecords}

\* The finding made of record k (lines 397-405, 436-444; 96-101).
FindingOf(tool, k) == [tool |-> tool, record |-> k]

\* github.py, lines 393-407 and 413-414: one line of trufflehog's output.
\* json.loads raises JSONDecodeError on text that is not JSON and the line
\* is skipped; on JSON that is not an object secret_data.get raises
\* AttributeError, which only the handler of line 413 catches.
ParseTrufflehogLine ==
    /\ dpc = "loop"
    /\ parser = "trufflehog"
    /\ lineno <= Len(stdout)
    /\ CASE stdout[lineno] = "object" ->
              /\ parsed' = Append(parsed, FindingOf("trufflehog", lineno))
              /\ lineno' = lineno + 1
              /\ dpc' = dpc
         [] stdout[lineno] = "invalid" ->
              /\ lineno' = lineno + 1
              /\ UNCHANGED <<parsed, dpc>>
         [] stdout[lineno] = "scalar" ->
              /\ dpc' = "returned"
              /\ UNCHANGED <<parsed, lineno>>
    /\ UNCHANGED <<parser, stdout>>

\* github.py, lines 432-434 and 445-446: the whole output is one JSON
\* document; if any part of it is not JSON nothing is read.
LoadGitleaksReport ==
    /\ dpc = "start"
    /\ parser = "gitleaks"
    /\ dpc' = IF \E k \in DOMAIN stdout : stdout[k] = "invalid"
              THEN "returned" ELSE "loop"
    /\ UNCHANGED <<parser, stdout, lineno, parsed>>

\* github.py, lines 435-444 and 452-453: one element of the report.
ParseGitleaksLeak ==
    /\ dpc = "loop"
    /\ parser = "gitleaks"
    /\ lineno <= Len(stdout)
    /\ IF stdout[lineno] = "object"
       THEN /\ parsed' = Append(parsed, FindingOf("gitleaks", lineno))
            /\ lineno' = lineno + 1
            /\ dpc' = dpc
       ELSE /\ dpc' = "returned"
            /\ UNCHANGED <<parsed, lineno>>
    /\ UNCHANGED <<parser, stdout>>

\* github_scanner.py, lines 92-103: the try encloses the loop, so the first
\* line that is not JSON ends it; AttributeError is not caught there and
\* leaves clone_and_scan_repo through the finally of line 105.
ParseLegacyLine ==
    /\ dpc = "loop"
    /\ parser = "legacy"
    /\ lineno <= Len(stdout)
    /\ CASE stdout[lineno] = "object" ->
              /\ parsed' = Append(parsed, FindingOf("trufflehog", lineno))
              /\ lineno' = lineno + 1
              /\ dpc' = dpc
         [] stdout[lineno] = "invalid" ->
              /\ dpc' = "returned"
              /\ UNCHANGED <<parsed, lineno>>
         [] stdout[lineno] = "scalar" ->
              /\ dpc' = "raised"
              /\ UNCHANGED <<parsed, lineno>>
    /\ UNCHANGED <<parser, stdout>>

\* Lines 392-393 (and 91-93): the loop over the lines starts.
StartLines ==
    /\ dpc = "start"
    /\ parser \in {"trufflehog", "legacy"}
    /\ dpc' = "loop"
    /\ UNCHANGED <<parser, stdout, lineno, parsed>>

\* The loop is over: lines 409-416, 448-455 (and 109).
ParseReturn ==
    /\ dpc = "loop"
    /\ lineno > Len(stdout)
    /\ dpc' = "returned"
    /\ UNCHANGED <<parser, stdout, lineno, parsed>>

ParseInit ==
    /\ dpc = "start"
    /\ parser \in Parsers
    /\ stdout \in Outputs
    /\ lineno = 1
    /\ parsed = <<>>

\* No detector has written anything.
ParseQuiet ==
    /\ ParseInit
    /\ parser = "trufflehog"
    /\ stdout = <<>>

NextParse ==
    \/ StartLines /\ UNCHANGED <<apiVars, reconVars, unitVars, legacyVars, gitlabVars, cacheVars, pagingVars>>
    \/ ParseTrufflehogLine /\ UNCHANGED <<apiVars, reconVars, unitVars, legacyVars, gitlabVars, cacheVars, pagingVars>>
    \/ LoadGitleaksReport /\ UNCHANGED <<apiVars, reconVars, unitVars, legacyVars, gitlabVars, cacheVars, pagingVars>>
    \/ ParseGitleaksLeak /\ UNCHANGED <<apiVars, reconVars, unitVars, legacyVars, gitlabVars, cacheVars, pagingVars>>
    \/ ParseLegacyLine /\ UNCHANGED <<apiVars, reconVars, unitVars, legacyVars, gitlabVars, cacheVars, pagingVars>>
    \/ ParseReturn /\ UNCHANGED <<apiVars, reconVars, unitVars, legacyVars, gitlabVars, cacheVars, pagingVars>>

NextCache ==
    \/ \E t \in Threads, v \in CachedValues : CacheOpen(t, v) /\ UNCHANGED <<apiVars, reconVars, unitVars, legacyVars, gitlabVars, pagingVars, parseVars>>
    \/ \E t \in Threads : CacheWrite(t) /\ UNCHANGED <<apiVars, reconVars, unitVars, legacyVars, gitlabVars, pagingVars, parseVars>>
    \/ \E t \in Threads : CacheRead(t) /\ UNCHANGED <<apiVars, reconVars, unitVars, legacyVars, gitlabVars, pagingVars, parseVars>>

Next ==
    \/ SearchRepositories /\ UNCHANGED <<apiVars, unitVars, legacyVars, gitlabVars, cacheVars, pagingVars, parseVars>>
    \/ SelectAndSubmit /\ UNCHANGED <<apiVars, unitVars, legacyVars, gitlabVars, cacheVars, pagingVars, parseVars>>
    \/ \E i \in Units : CloneRepository(i) /\ UNCHANGED <<apiVars, unitVars, legacyVars, gitlabVars, cacheVars, pagingVars, parseVars>>
    \/ \E i \in Units : ScanRepository(i) /\ UNCHANGED <<apiVars, unitVars, legacyVars, gitlabVars, cacheVars, pagingVars, parseVars>>
    \/ \E i \in Units : ScanAborts(i) /\ UNCHANGED <<apiVars, unitVars, legacyVars, gitlabVars, cacheVars, pagingVars, parseVars>>
    \/ \E i \in Units : ReleaseRepository(i) /\ UNCHANGED <<apiVars, unitVars, legacyVars, gitlabVars, cacheVars, pagingVars, parseVars>>
    \/ \E i \in Units : MergeResult(i) /\ UNCHANGED <<apiVars, unitVars, legacyVars, gitlabVars, cacheVars, pagingVars, parseVars>>
    \/ SaveAndReturn /\ UNCHANGED <<apiVars, unitVars, legacyVars, gitlabVars, cacheVars, pagingVars, parseVars>>

NextApi ==
    \/ \E u \in Urls : MakeGithubRequest(u) /\ UNCHANGED <<reconVars, unitVars, legacyVars, gitlabVars, cacheVars, pagingVars, parseVars>>
    \/ \E r \in Responses(now) : HttpResponse(r) /\ UNCHANGED <<reconVars, unitVars, legacyVars, gitlabVars, cacheVars, pagingVars, parseVars>>
    \/ SleepDone /\ UNCHANGED <<reconVars, unitVars, legacyVars, gitlabVars, cacheVars, pagingVars, parseVars>>
    \/ ReturnToCaller /\ UNCHANGED <<reconVars, unitVars, legacyVars, gitlabVars, cacheVars, pagingVars, parseVars>>
    \/ Tick /\ UNCHANGED <<reconVars, unitVars, legacyVars, gitlabVars, cacheVars, pagingVars, parseVars>>

NextUnit ==
    \/ UnitClone /\ UNCHANGED <<apiVars, reconVars, legacyVars, gitlabVars, cacheVars, pagingVars, parseVars>>
    \/ SubmitTasks /\ UNCHANGED <<apiVars, reconVars, legacyVars, gitlabVars, cacheVars, pagingVars, parseVars>>
    \/ SubmitRaises /\ UNCHANGED <<apiVars, reconVars, legacyVars, gitlabVars, cacheVars, pagingVars, parseVars>>
    \/ \E d \in Tasks : StartTask(d) /\ UNCHANGED <<apiVars, reconVars, legacyVars, gitlabVars, cacheVars, pagingVars, parseVars>>
    \/ \E d \in Tasks : FinishTask(d) /\ UNCHANGED <<apiVars, reconVars, legacyVars, gitlabVars, cacheVars, pagingVars, parseVars>>
    \/ CollectResult /\ UNCHANGED <<apiVars, reconVars, legacyVars, gitlabVars, cacheVars, pagingVars, parseVars>>
    \/ WaitTimesOut /\ UNCHANGED <<apiVars, reconVars, legacyVars, gitlabVars, cacheVars, pagingVars, parseVars>>
    \/ ExitAndRelease /\ UNCHANGED <<apiVars, reconVars, legacyVars, gitlabVars, cacheVars, pagingVars, parseVars>>

NextLegacy ==
    \/ LegacySearch /\ UNCHANGED <<apiVars, reconVars, unitVars, gitlabVars, cacheVars, pagingVars, parseVars>>
    \/ LegacyClone /\ UNCHANGED <<apiVars, reconVars, unitVars, gitlabVars, cacheVars, pagingVars, parseVars>>
    \/ LegacyScan /\ UNCHANGED <<apiVars, reconVars, unitVars, gitlabVars, cacheVars, pagingVars, parseVars>>
    \/ LegacyReturn /\ UNCHANGED <<apiVars, reconVars, unitVars, gitlabVars, cacheVars, pagingVars, parseVars>>

NextGitlab ==
    \/ GitlabSearch /\ UNCHANGED <<apiVars, reconVars, unitVars, legacyVars, cacheVars, pagingVars, parseVars>>
    \/ GitlabClone /\ UNCHANGED <<apiVars, reconVars, unitVars, legacyVars, cacheVars, pagingVars, parseVars>>
    \/ GitlabScan /\ UNCHANGED <<apiVars, reconVars, unitVars, legacyVars, cacheVars, pagingVars, parseVars>>
    \/ GitlabSaveAndReturn /\ UNCHANGED <<apiVars, reconVars, unitVars, legacyVars, cacheVars, pagingVars, parseVars>>

Init == ReconInit /\ ApiQuiet /\ UnitQuiet /\ LegacyQuiet /\ GitlabQuiet /\ CacheInit /\ PagingQuiet /\ ParseQuiet

InitApi == ApiInit /\ ReconQuiet /\ UnitQuiet /\ LegacyQuiet /\ GitlabQuiet /\ CacheInit /\ PagingQuiet /\ ParseQuiet

InitUnit == UnitInit /\ ApiQuiet /\ ReconQuiet /\ LegacyQuiet /\ GitlabQuiet /\ CacheInit /\ PagingQuiet /\ ParseQuiet

InitLegacy == LegacyInit /\ ApiQuiet /\ ReconQuiet /\ UnitQuiet /\ GitlabQuiet /\ CacheInit /\ PagingQuiet /\ ParseQuiet

InitCache ==
    CacheInit /\ ApiQuiet /\ ReconQuiet /\ UnitQuiet /\ LegacyQuiet /\ GitlabQuiet /\ PagingQuiet /\ ParseQuiet

InitGitlab == GitlabInit /\ ApiQuiet /\ ReconQuiet /\ UnitQuiet /\ LegacyQuiet /\ CacheInit /\ PagingQuiet /\ ParseQuiet

InitPaging == PagingInit /\ ApiQuiet /\ ReconQuiet /\ UnitQuiet /\ LegacyQuiet /\ GitlabQuiet /\ CacheInit /\ ParseQuiet

InitParse == ParseInit /\ ApiQuiet /\ ReconQuiet /\ UnitQuiet /\ LegacyQuiet /\ GitlabQuiet /\ CacheInit /\ PagingQuiet

Spec == Init /\ [][Next]_vars

SpecApi == InitApi /\ [][NextApi]_vars

SpecUnit == InitUnit /\ [][NextUnit]_vars

SpecLegacy == InitLegacy /\ [][NextLegacy]_vars

SpecGitlab == InitGitlab /\ [][NextGitlab]_vars

SpecCache == InitCache /\ [][NextCache]_vars

SpecPaging == InitPaging /\ [][NextPaging]_vars

SpecParse == InitParse /\ [][NextParse]_vars

(***************************************************************************)
(* Claims about the API client and the cache (checked under SpecApi).      *)
(***************************************************************************)
LastResp == api.log[Len(api.log)]

\* The reset-after duration a response carries, else the configured
\* default backoff.
ExpectedBackoff(e) ==
    IF Has(e.resp, "Retry-After") THEN e.resp.headers["Retry-After"]
    ELSE IF Has(e.resp, "X-RateLimit-Reset")
         THEN e.resp.headers["X-RateLimit-Reset"] - e.at
         ELSE RateLimitWait

\* C4: one request call makes at most two HTTP attempts (the original and
\* one retry); when both were answered with a rate-limit signal the call
\* returns an empty result.
C4_AtMostTwoAttempts ==
    /\ api.attempts <= 2
    /\ (/\ api.pc = "done" /\ Len(api.log) = 2
        /\ \A k \in 1..2 : IsRateLimitSignal(api.log[k].resp))
       => api.result = Json(<<>>)

\* C5: a call whose first response is a rate-limit signal (HTTP 429 or
\* remaining quota 0) sleeps for the reset-after duration of that response,
\* or for the default backoff when it carries none, re-issues the request
\* exactly once, and returns the retry's payload when the retry succeeds.
C5_SleepThenRetryOnce ==
    (api.pc = "done" /\ Len(api.log) >= 1 /\ IsRateLimitSignal(api.log[1].resp))
    => /\ Len(api.slept) = 1
       /\ api.slept[1] = ExpectedBackoff(api.log[1])
       /\ Len(api.log) = 2
       /\ Is2xx(api.log[2].resp) => api.result = api.log[2].resp.body

\* C9: get(k) right after put(k, v) returns v, get(k) returns none once
\* now - stored_at >= the configured TTL, and an entry is valid iff
\* now - stored_at < the configured TTL.
C9_CacheRoundTripAndTtl ==
    \A u \in Urls :
        cache[u] # None =>
            LET age == now - cache[u].timestamp
                hit == GetCachedResponse(cache, u, now)
            IN  /\ age = 0 => hit = cache[u].data
                /\ age >= cache_ttl => hit = None
                /\ hit = cache[u].data <=> age < cache_ttl

\* C10: a 2xx response is in the cache when the call returns, and a call
\* for a URL that succeeded less than a TTL ago (the configured TTL and
\* the one the cache applies) returns that payload without any HTTP
\* request, whatever the payload.
C10_CachedBeforeReturnAndServedFromCache ==
    /\ (api.pc = "done" /\ Len(api.log) > 0 /\ Is2xx(LastResp.resp))
       => cache[api.url] = [data |-> LastResp.resp.body, timestamp |-> LastResp.at]
    /\ (/\ api.pc = "done" /\ api.prior # None
        /\ api.startedAt - api.prior.at < cache_ttl
        /\ api.startedAt - api.prior.at < CacheMaxAge)
       => api.attempts = 0 /\ api.result = api.prior.data


(***************************************************************************)
(* Claims about run_recon (checked under Spec).                            *)
(***************************************************************************)
Started == {i \in Units : unit[i].st # "queued"}

C2_DedupFirstWins ==
    /\ found # None =>
         /\ \A i, j \in DOMAIN found.unique :
              i # j => found.unique[i].name # found.unique[j].name
         /\ {found.raw[k].name : k \in DOMAIN found.raw}
              = {found.unique[i].name : i \in DOMAIN found.unique}
         /\ \A i \in DOMAIN found.unique :
              \E k \in DOMAIN found.raw :
                 /\ found.raw[k] = found.unique[i]
                 /\ \A m \in 1..(k - 1) : found.raw[m].name # found.unique[i].name
    /\ \A i, j \in DOMAIN repositories :
         i # j => repositories[i].name # repositories[j].name

\* Two queries returned the same repository, and their records differ.
C2_Witness ==
    /\ found # None
    /\ \E k, m \in DOMAIN found.raw :
         /\ k < m
         /\ found.raw[k].name = found.raw[m].name
         /\ found.raw[k] # found.raw[m]
    /\ Len(found.unique) >= 2

\* C3: once a unit whose clone succeeded has ended, its clone directory is
\* gone, and when the run has returned no clone directory of a selected
\* repository is left.
C3_NoCloneDirOutlivesUnit ==
    /\ \A i \in Units :
         unit[i].st \in {"completed", "raised"}
            => disk[DirName(top_repos[i].name)] = "absent"
    /\ rc = "returned" =>
         \A i \in Units : disk[DirName(top_repos[i].name)] = "absent"

\* C8: repos_scanned is the number of selected repositories whose clone
\* and scan completed.
C8_ScannedCountsSuccesses ==
    summary # None =>
        summary.repos_scanned
            = Cardinality({i \in Units : unit[i].st = "completed"})

(***************************************************************************)
(* Claims about one clone_and_analyze_repo (checked under SpecUnit).       *)
(***************************************************************************)
\* What the detectors that returned, and whose wait did not time out,
\* reported, in the order of collection.
RECURSIVE CompletedFindings(_)
CompletedFindings(order) ==
    IF order = <<>> THEN <<>>
    ELSE (IF task[Head(order)].st = "returned" /\ got[Head(order)] # "timeout"
          THEN task[Head(order)].value
          ELSE <<>>)
         \o CompletedFindings(Tail(order))

\* C6: the secrets a unit returns are exactly the findings of every
\* detector that completed, whatever the other detectors did (raised,
\* timed out), and each finding names the tool that reported it.
C6_DetectorIsolation ==
    up = "returned" =>
        /\ results = CompletedFindings(DetectorOrder)
        /\ \A k \in DOMAIN results :
             /\ results[k].tool \in Detectors
             /\ \E m \in DOMAIN task[results[k].tool].value :
                  task[results[k].tool].value[m] = results[k]

\* One detector raised, one timed out, and the third one's finding is
\* what the unit returned.
C6_Witness ==
    /\ up = "returned"
    /\ got["gitleaks"] = "exception"
    /\ got["trufflehog"] = "timeout"
    /\ results = Findings("custom_patterns", DirName(UnitRepo), UnitRepo)

(***************************************************************************)
(* Claims about the earlier run_recon (checked under SpecLegacy).          *)
(***************************************************************************)
\* C7: a repository whose clone or scan fails does not end the run: no
\* exception of a unit leaves run_recon, and the run returns only after
\* every selected repository was processed, with the findings of the
\* others counted in its result.
C7_RunSurvivesUnitFailure ==
    /\ lrc # "raised"
    /\ lrc = "returned" =>
         /\ lpos = Len(ltop_repos) + 1
         /\ lsummary.secrets_found = Len(all_secrets)

(***************************************************************************)
(* Further claims about the API client (checked under SpecApi).            *)
(***************************************************************************)
\* C11: a request call never raises to its caller, and a call whose last
\* response was a network failure or a non-2xx status that is no
\* rate-limit signal returns the empty result.
C11_ClientNeverRaises ==
    /\ api.pc # "raised"
    /\ (/\ api.pc = "done" /\ Len(api.log) > 0
        /\ ~Is2xx(LastResp.resp) /\ ~IsRateLimitSignal(LastResp.resp))
       => api.result = Json(<<>>)

(***************************************************************************)
(* Further claims about run_recon (checked under Spec).                    *)
(***************************************************************************)
\* C12: when every search query yielded nothing, the run returns without a
\* unit having been started, and both the repository list and the finding
\* list of its result are empty.
C12_ZeroResultsGiveEmptyRun ==
    (rc = "returned" /\ repositories = <<>>) =>
        /\ Units = {}
        /\ artifacts.repositories = <<>>
        /\ secrets_found = <<>>
        /\ artifacts.secrets = <<>>
        /\ summary.secrets_found = 0

\* C13: with D distinct repositories discovered and a budget of N, a run
\* that returned has executed exactly min(N, D) clone/scan units, and the
\* repositories artifact holds exactly min(N, D) records, none of them
\* ranked below a discovered repository that is not in it.
C13_ArtifactHoldsTopRanked ==
    rc = "returned" =>
        LET D == Len(repositories)
            n == IF max_repos_to_scan < D THEN max_repos_to_scan ELSE D
            saved == {artifacts.repositories[k].name :
                         k \in DOMAIN artifacts.repositories}
        IN  /\ Cardinality(Started) = n
            /\ Len(artifacts.repositories) = n
            /\ \A k \in DOMAIN artifacts.repositories :
                 \A m \in DOMAIN repositories :
                    repositories[m].name \notin saved
                       => artifacts.repositories[k].stars >= repositories[m].stars

(***************************************************************************)
(* Claims about GitLabRecon.run (checked under SpecGitlab).                *)
(***************************************************************************)
\* C14: two different repositories selected in one run are never cloned
\* into the same directory.
C14_CloneDirsNotShared ==
    \A k, m \in DOMAIN cloned :
        cloned[k].id # cloned[m].id => cloned[k].dir # cloned[m].dir

(***************************************************************************)
(* Claims about the units of run_recon (checked under Spec).               *)
(***************************************************************************)
\* C15: at every moment of a run the number of units between their clone
\* and the removal of their clone is at most the configured
\* max_concurrent_repos.
C15_PoolBoundedByConfiguredLimit ==
    Cardinality(InFlight) <= max_concurrent_repos

(***************************************************************************)
(* Claims about the cache file (checked under SpecCache).                  *)
(***************************************************************************)
\* C16: a _get_cached_response that runs while other threads execute
\* _cache_response returns the complete entry the file held before (None
\* when it held none) or the complete entry one of them is writing, and
\* once no _cache_response is running the file holds one complete entry.
C16_CacheWritesAtomic ==
    /\ observed.got \in {observed.previous} \cup observed.writing
    /\ (\A t \in Threads : io[t].pc = "idle")
          => \/ cache_file = Missing
             \/ \E v \in CachedValues : cache_file.chunks = Pickle(v)

(***************************************************************************)
(* Further claims about GitLabRecon.run (checked under SpecGitlab).        *)
(***************************************************************************)
\* C17: what run returns is a summary with the fields repos_found,
\* repos_scanned and secrets_found, where repos_found is the number of
\* distinct projects discovered, secrets_found the number of findings
\* gathered, and repos_scanned at most both repos_found and the budget.
C17_SummaryRecord ==
    grc = "returned" =>
        /\ {"repos_found", "repos_scanned", "secrets_found"} \subseteq DOMAIN gresult
        /\ gresult.repos_found = Len(unique_projects)
        /\ gresult.secrets_found = Len(gl_secrets_found)
        /\ gresult.repos_scanned <= Len(unique_projects)
        /\ gresult.repos_scanned <= gl_max_repos

\* C18: no failure of a unit ends the run, and a run that returned has
\* written the repositories file and the secrets file, as empty arrays
\* when nothing was found.
C18_RunYieldsArtifacts ==
    /\ grc # "raised"
    /\ grc = "returned" =>
         /\ gfiles.repositories # None
         /\ gfiles.secrets # None

(***************************************************************************)
(* Claims about clone_repository in a run (checked under Spec).            *)
(***************************************************************************)
\* C19: a repository whose clone failed is not scanned and no clone
\* directory of it exists afterwards.
C19_FailedCloneLeavesNothing ==
    \A i \in Units :
        unit[i].st = "clone_failed" =>
            /\ unit[i].secrets = <<>>
            /\ disk[DirName(top_repos[i].name)] = "absent"

\* C20: the detectors of a unit only ever see a fresh clone of the unit's
\* repository: a unit that was cloned has that clone in its directory, and
\* no finding comes from content an earlier run left behind.
C20_ScanStartsFromFreshClone ==
    /\ \A i \in Units :
         unit[i].st \in {"cloned", "scanned"}
            => disk[DirName(top_repos[i].name)] = top_repos[i].name
    /\ \A k \in DOMAIN secrets_found :
         secrets_found[k].src \in Names \cup {"org"}

(***************************************************************************)
(* Claims about discovery, request by request (checked under SpecPaging).  *)
(***************************************************************************)
\* C21: paging stops at the first of "no more items", "max result count
\* reached" and "max page count reached", so the number of items one
\* discovery has collected never exceeds the configured max result count.
C21_CollectedWithinMaxResults ==
    Len(paged) <= max_search_results

\* C26: a missing credential is not an error: without a token every query
\* is still searched, by a request that carries no authorization header,
\* and the search comes to its end.
C26_AnonymousSearchIssued ==
    (~gitlab_token /\ ppc = "searched" /\ PageLimit >= 1) =>
        \A q \in 1..MaxQueries :
            \E r \in DOMAIN requests :
                requests[r].query = q /\ ~requests[r].authorization

(***************************************************************************)
(* Claims about selection.                                                 *)
(***************************************************************************)
\* C22: the repositories selected for scanning are the top of the ranking
\* by descending stars: no repository left out has more stars than a
\* selected one, and the selected ones keep their discovery order where the
\* stars are equal.
C22_SelectedAreTopByStars ==
    grc # "start" =>
        \A s \in DOMAIN projects_to_scan, u \in DOMAIN unique_projects :
            /\ (\A k \in DOMAIN projects_to_scan :
                    projects_to_scan[k].id # unique_projects[u].id)
               => StarCount(projects_to_scan[s].id) >= StarCount(unique_projects[u].id)
            /\ \A t \in DOMAIN unique_projects :
                   (/\ s < Len(projects_to_scan)
                    /\ projects_to_scan[s].id = unique_projects[t].id
                    /\ projects_to_scan[s + 1].id = unique_projects[u].id
                    /\ StarCount(projects_to_scan[s].id)
                         = StarCount(projects_to_scan[s + 1].id))
                   => t < u

(***************************************************************************)
(* Claims about discovery of run_recon (checked under Spec).               *)
(***************************************************************************)
\* The repo_info records of the queries that answered with items, in query
\* order.
RECURSIVE Succeeded(_, _)
Succeeded(answers, q) ==
    IF q > Len(answers) THEN <<>>
    ELSE (IF answers[q].ok
          THEN [k \in DOMAIN answers[q].items |-> RepoInfo(answers[q].items[k], q)]
          ELSE <<>>)
         \o Succeeded(answers, q + 1)

\* C23 as stated: whichever queries fail, are rate limited or return
\* nothing, every repository listed by a query that succeeded is returned.
C23_AllSucceededReturned ==
    rc = "searched" =>
        \A q \in DOMAIN found.answers :
            found.answers[q].ok =>
                \A k \in DOMAIN found.answers[q].items :
                    \E u \in DOMAIN found.unique :
                        found.unique[u].name = found.answers[q].items[k]

\* C23, amended: whichever queries fail, are rate limited or return
\* nothing, the others are still taken in order until the max result count
\* is reached: the results collected are the first max_search_results of
\* what the succeeding queries listed, and each of their names is returned.
C23_FailedQuerySkipped ==
    rc = "searched" =>
        /\ found.raw = Take(Succeeded(found.answers, 1), found.limit)
        /\ \A k \in DOMAIN found.raw :
               \E u \in DOMAIN found.unique : found.unique[u].name = found.raw[k].name
        /\ Len(found.raw) < found.limit => C23_AllSucceededReturned

\* A search whose first query failed and whose second query's repositories
\* are all returned.
C23_Witness ==
    /\ rc = "searched"
    /\ ~found.answers[1].ok
    /\ found.answers[2].ok
    /\ Len(found.answers[2].items) = MaxItems
    /\ Len(found.unique) = MaxItems
    /\ \A k \in 1..MaxItems : found.unique[k].name = found.answers[2].items[k]

(***************************************************************************)
(* Claims about the parsing of detector output (checked under SpecParse).  *)
(***************************************************************************)
\* C24: a malformed record (text that is not JSON, or JSON of an unexpected
\* shape) drops only that record: the parse never raises, and when it is
\* over every well-formed record, before or after the malformed one, has
\* yielded a finding.
C24_MalformedRecordDropsOnlyItself ==
    /\ dpc # "raised"
    /\ dpc = "returned" =>
           \A k \in DOMAIN stdout :
               stdout[k] = "object" =>
                   \E f \in DOMAIN parsed : parsed[f].record = k

(***************************************************************************)
(* Claims about the detectors of one unit (checked under SpecUnit).        *)
(***************************************************************************)
\* C25: a detector that is not enabled in self.tools (its flag is off, its
\* binary did not answer the probe, or enabled_tools has no key for it) is
\* never run: it raises nothing and no finding of the unit carries its
\* name, whatever keys enabled_tools holds.
C25_DisabledDetectorNeverRuns ==
    \A d \in Detectors :
        (d \notin DOMAIN tools \/ ~tools[d]) =>
            /\ task[d].st # "raised"
            /\ \A k \in DOMAIN results : results[k].tool # d

\* C27: a scanned repository costs exactly three external-tool
\* subprocesses, one clone and one run of each of the two secret-scanning
\* binaries (fewer where a binary is switched off), and no other.
C27_ThreeSubprocessesPerRepository ==
    up = "returned" =>
        /\ Subprocesses <= 3
        /\ (\A d \in {"trufflehog", "gitleaks"} : d \in DOMAIN tools /\ tools[d])
               => Subprocesses = 3

\* C28: within one unit the clone directory is removed only after every
\* task submitted against it has finished, the tasks whose wait timed out
\* included: no task is queued or running while the directory is gone, and
\* the unit returns with every task finished.
C28_ReleaseAfterEveryTask ==
    /\ \A d \in Tasks : task[d].st \in {"queued", "running"} => udir # "absent"
    /\ up = "returned" => \A d \in Tasks : TaskFinished(d)

\* A unit that returned after the wait for one of its detectors had timed
\* out: the directory is gone and that detector has finished.
C28_Witness ==
    /\ up = "returned"
    /\ udir = "absent"
    /\ \E d \in Detectors : got[d] = "timeout" /\ TaskFinished(d)

(***************************************************************************)
(* Claims about the merge of the units' results (checked under Spec).      *)
(***************************************************************************)
\* How often x occurs in the list xs.
Count(xs, x) == Cardinality({k \in DOMAIN xs : xs[k] = x})

\* The findings returned by the units among the first n that completed
\* normally and were taken by the main thread, one list after the other.
RECURSIVE ReturnedFindings(_)
ReturnedFindings(n) ==
    IF n = 0 THEN <<>>
    ELSE ReturnedFindings(n - 1)
         \o (IF n \in merged /\ unit[n].st = "completed" THEN unit[n].secrets
             ELSE <<>>)

\* The findings that occur in either list.
Occurring(xs, ys) == {xs[k] : k \in DOMAIN xs} \cup {ys[k] : k \in DOMAIN ys}

C30_RemovesOnlyBelowRoot ==
    CacheRoot \notin removed

====
